---------------------------- MODULE Spec2Model ----------------------------
(***************************************************************************)
(* Model of app.py: the Flask routes /start, /status, /result and the      *)
(* worker thread background_task that resolves metadata, downloads the     *)
(* audio and splits it into chapters, together with the helper functions   *)
(* parse_chapters, sanitize_filename, extract_video_id and the cookie      *)
(* cache of maybe_refresh_cookies / refresh_cookies.                       *)
(*                                                                         *)
(* Python strings are modelled as sequences of one-character strings, so   *)
(* that the regular expressions of the source are matched character by     *)
(* character.  Percent values are floats in the source; the model stores   *)
(* them exactly, as integers in units of 1/PctScale percent.  Rounding in  *)
(* float division, multiplication and addition is monotone, so every       *)
(* order comparison of the model agrees (weakly) with the floats.          *)
(***************************************************************************)
EXTENDS Integers, Sequences, FiniteSets, TLC

(***************************************************************************)
(* Bounds of the model.                                                    *)
(***************************************************************************)
\* number of lines of a video description
MaxLines == 2
\* largest total_bytes a progress hook reports
MaxBytes == 2
\* largest number of chapters the extraction tool returns
MaxYtChapters == 1
\* length of the description lines that are built from every character
MaxLineLen == 7

(***************************************************************************)
(* Characters and strings.                                                 *)
(***************************************************************************)
Digits == {"0", "1", "2", "3", "4", "5", "6", "7", "8", "9"}

Letters ==
  {"a","b","c","d","e","f","g","h","i","j","k","l","m","n","o","p","q","r",
   "s","t","u","v","w","x","y","z","A","B","C","D","E","F","G","H","I","J",
   "K","L","M","N","O","P","Q","R","S","T","U","V","W","X","Y","Z"}

\* \s of the re module, as far as the model's strings use it
Whitespace == {" ", "\t"}

\* \w of the re module
WordChars == Letters \cup Digits \cup {"_"}

DigitVal(c) ==
  CASE c = "0" -> 0 [] c = "1" -> 1 [] c = "2" -> 2 [] c = "3" -> 3
    [] c = "4" -> 4 [] c = "5" -> 5 [] c = "6" -> 6 [] c = "7" -> 7
    [] c = "8" -> 8 [] c = "9" -> 9

DigitChar(n) == CHOOSE c \in Digits : DigitVal(c) = n

\* int("12") for a string of decimal digits
RECURSIVE IntOf(_)
IntOf(s) ==
  IF s = <<>> THEN 0
  ELSE 10 * IntOf(SubSeq(s, 1, Len(s) - 1)) + DigitVal(s[Len(s)])

IsDigitAt(s, i) == i >= 1 /\ i <= Len(s) /\ s[i] \in Digits

CharAt(s, i, c) == i >= 1 /\ i <= Len(s) /\ s[i] = c

\* the literal lit occurs in s at position pos
MatchLit(s, pos, lit) ==
  /\ pos + Len(lit) - 1 <= Len(s)
  /\ \A i \in 1..Len(lit) : s[pos + i - 1] = lit[i]

(***************************************************************************)
(* sanitize_filename: re.sub(r'[\\/*?:"<>|]', "_", name)                   *)
(***************************************************************************)
IllegalChars == {"\\", "/", "*", "?", ":", "\"", "<", ">", "|"}

sanitize_filename_keep(name) == name

sanitize_filename(name) ==
  [i \in 1..Len(name) |-> IF name[i] \in IllegalChars THEN "_" ELSE name[i]]

Mp3Ext == <<".", "m", "p", "3">>

FullAudioStem == <<"f", "u", "l", "l", "_", "a", "u", "d", "i", "o">>

FullAudioMp3 == FullAudioStem \o Mp3Ext

FullAudioM4a == FullAudioStem \o <<".", "m", "4", "a">>

(***************************************************************************)
(* parse_chapters: one chapter for each line that                          *)
(*   re.match(r"(?P<ts>\d{1,2}:\d{2}(?::\d{2})?)\s+(?P<label>.+)", line)   *)
(* accepts.  The alternatives of the backtracking matcher exclude each     *)
(* other on the character that follows, so the match is computed forward:  *)
(* the width of the first number, the optional third number, then the      *)
(* greedy \s+ giving back as many characters as .+ needs (one).            *)
(***************************************************************************)
\* width of the leading \d{1,2} that is followed by ":\d{2}", 0 when none
FirstWidth(line) ==
  IF IsDigitAt(line, 1) /\ IsDigitAt(line, 2) /\ CharAt(line, 3, ":")
     /\ IsDigitAt(line, 4) /\ IsDigitAt(line, 5)
  THEN 2
  ELSE IF IsDigitAt(line, 1) /\ CharAt(line, 2, ":")
          /\ IsDigitAt(line, 3) /\ IsDigitAt(line, 4)
  THEN 1
  ELSE 0

\* the optional group (?::\d{2}) matches right after position p
HasThird(line, p) ==
  CharAt(line, p + 1, ":") /\ IsDigitAt(line, p + 2) /\ IsDigitAt(line, p + 3)

\* number of whitespace characters of line from position p on
RECURSIVE SpaceRun(_, _)
SpaceRun(line, p) ==
  IF p <= Len(line) /\ line[p] \in Whitespace
  THEN 1 + SpaceRun(line, p + 1)
  ELSE 0

\* the match object of a line: [ok, ts, label]
MatchLine(line) ==
  LET w == FirstWidth(line)
      p == w + 3
      q == IF HasThird(line, p) THEN p + 3 ELSE p
      run == SpaceRun(line, q + 1)
      \* \s+ is greedy but leaves one character to .+
      s == IF q + run >= Len(line) THEN Len(line) - q - 1 ELSE run
  IN IF w = 0 \/ run = 0 \/ s < 1
     THEN [ok |-> FALSE, ts |-> <<>>, label |-> <<>>]
     ELSE [ok |-> TRUE,
           ts |-> SubSeq(line, 1, q),
           label |-> SubSeq(line, q + s + 1, Len(line))]

\* ts.split(":") mapped through int
RECURSIVE SplitColon(_)
SplitColon(ts) ==
  LET idx == {i \in 1..Len(ts) : ts[i] = ":"}
  IN IF idx = {} THEN <<IntOf(ts)>>
     ELSE LET i == CHOOSE j \in idx : \A k \in idx : j <= k
          IN <<IntOf(SubSeq(ts, 1, i - 1))>>
               \o SplitColon(SubSeq(ts, i + 1, Len(ts)))

\* secs = parts[-1] + parts[-2]*60 + (parts[0]*3600 if len(parts) == 3 else 0)
TimestampSecsSwapped(ts) ==
  LET parts == SplitColon(ts)
      n == Len(parts)
  IN parts[n] * 60 + parts[n - 1] + (IF n = 3 THEN parts[1] * 3600 ELSE 0)

TimestampSecs(ts) ==
  LET parts == SplitColon(ts)
      n == Len(parts)
  IN parts[n] + parts[n - 1] * 60 + (IF n = 3 THEN parts[1] * 3600 ELSE 0)

RECURSIVE parse_chapters(_)
parse_chapters(description_lines) ==
  IF description_lines = <<>> THEN <<>>
  ELSE LET m == MatchLine(Head(description_lines))
           rest == parse_chapters(Tail(description_lines))
       IN IF ~m.ok THEN rest
          ELSE <<[start_time |-> TimestampSecs(m.ts), title |-> m.label]>>
                 \o rest


(***************************************************************************)
(* URLs.  start accepts a URL that                                         *)
(*   re.match(r'^(https?://)?(www\.)?(youtube\.com/watch\?v=|youtu\.be/)   *)
(*              [\w-]{11}', url)                                           *)
(* accepts; extract_video_id reads the id back with urlparse / parse_qs.   *)
(***************************************************************************)
LitHttp == <<"h", "t", "t", "p", ":", "/", "/">>

LitHttps == <<"h", "t", "t", "p", "s", ":", "/", "/">>

LitWww == <<"w", "w", "w", ".">>

LitWatch == <<"y", "o", "u", "t", "u", "b", "e", ".", "c", "o", "m", "/", "w", "a", "t", "c", "h", "?", "v", "=">>

LitShort == <<"y", "o", "u", "t", "u", ".", "b", "e", "/">>

LitShortHost == <<"y", "o", "u", "t", "u", ".", "b", "e">>

\* length of the scheme (https?://)? matches at the start of url
SchemeLen(url) ==
  IF MatchLit(url, 1, LitHttps) THEN Len(LitHttps)
  ELSE IF MatchLit(url, 1, LitHttp) THEN Len(LitHttp)
  ELSE 0

UrlMatches(url) ==
  LET a == SchemeLen(url) + 1
      b == IF MatchLit(url, a, LitWww) THEN a + Len(LitWww) ELSE a
      c == IF MatchLit(url, b, LitWatch) THEN b + Len(LitWatch)
           ELSE IF MatchLit(url, b, LitShort) THEN b + Len(LitShort)
           ELSE 0
  IN /\ c > 0
     /\ c + 10 <= Len(url)
     /\ \A i \in c..(c + 10) : url[i] \in WordChars \cup {"-"}

\* first position >= p of url that holds a character of cs, Len(url)+1 if none
RECURSIVE FindFrom(_, _, _)
FindFrom(url, p, cs) ==
  IF p > Len(url) \/ url[p] \in cs THEN p ELSE FindFrom(url, p + 1, cs)

\* path.lstrip('/')
RECURSIVE LStripSlash(_)
LStripSlash(path) ==
  IF path # <<>> /\ Head(path) = "/" THEN LStripSlash(Tail(path)) ELSE path

\* the video id, or <<>> for Python's None.  urlparse finds a hostname only
\* behind a scheme; parse_qs is read for a query whose first parameter is v.
extract_video_id(url) ==
  LET n == SchemeLen(url)
      slash == FindFrom(url, n + 1, {"/", "?"})
      hostname == IF n = 0 THEN <<>> ELSE SubSeq(url, n + 1, slash - 1)
      qmark == FindFrom(url, 1, {"?"})
      amp == FindFrom(url, qmark + 1, {"&"})
  IN IF hostname = LitShortHost
     THEN LStripSlash(SubSeq(url, slash, qmark - 1))
     ELSE IF MatchLit(url, qmark + 1, <<"v", "=">>)
          THEN SubSeq(url, qmark + 3, amp - 1)
          ELSE <<>>

VideoId == <<"A", "A", "A", "A", "A", "A", "A", "A", "A", "A", "A">>

\* https://youtu.be/AAAAAAAAAAA
UrlShort == LitHttps \o LitShort \o VideoId

\* youtu.be/AAAAAAAAAAA: accepted by start, but urlparse finds no hostname
UrlBare == LitShort \o VideoId

\* https://www.youtube.com/watch?v=AAAAAAAAAAA
UrlWatch == LitHttps \o LitWww \o LitWatch \o VideoId

\* https://youtu.be/AAAA: too short an id
UrlInvalid == LitHttps \o LitShort \o <<"A", "A", "A", "A">>

\* the URLs clients submit
Urls == {UrlShort, UrlBare, UrlInvalid}

(***************************************************************************)
(* Percent values.  A stored percent p stands for p / PctScale percent;    *)
(* PctScale is a common multiple of every divisor the code divides by      *)
(* (total_bytes and len(chapters)), so all values are exact.               *)
(***************************************************************************)
Max(a, b) == IF a >= b THEN a ELSE b

RECURSIVE Gcd(_, _)
Gcd(a, b) == IF b = 0 THEN a ELSE Gcd(b, a % b)

RECURSIVE LcmUpTo(_)
LcmUpTo(n) ==
  IF n <= 1 THEN 1 ELSE LET l == LcmUpTo(n - 1) IN (l * n) \div Gcd(l, n)

PctScale == LcmUpTo(Max(MaxBytes, Max(MaxLines, MaxYtChapters)))

Pct(n) == n * PctScale

(***************************************************************************)
(* The video behind the submitted URLs, as the collaborators report it:    *)
(* the Data API gives title, description and duration, the extraction      *)
(* tool gives title, duration and its own chapter list.                    *)
(***************************************************************************)
\* "My Video?"
TitleMyVideo == <<"M", "y", " ", "V", "i", "d", "e", "o", "?">>

Titles == {TitleMyVideo}

\* "1:05 Intro"
LineIntro == <<"1", ":", "0", "5", " ", "I", "n", "t", "r", "o">>

\* "0:30 a/b"
LineSlash == <<"0", ":", "3", "0", " ", "a", "/", "b">>

\* "Thanks": no timestamp
LinePlain == <<"T", "h", "a", "n", "k", "s">>

TimestampLines == {LineIntro, LineSlash}

SeqsUpTo(S, n) == UNION {[1..k -> S] : k \in 0..n}

\* description.splitlines(): up to MaxLines lines, the timestamp lines in
\* any order and with repeats, with or without a line of plain text first
Descriptions ==
  SeqsUpTo(TimestampLines, MaxLines)
    \cup {<<LinePlain>> \o d : d \in SeqsUpTo(TimestampLines, MaxLines - 1)}

\* "1:02:03 x": hours, minutes, seconds
LineHms == <<"1", ":", "0", "2", ":", "0", "3", " ", "x">>

\* " 1:05 x": the timestamp is not at the start of the line
LineLead == <<" ", "1", ":", "0", "5", " ", "x">>

\* "1:05": a timestamp and nothing else
LineNoLabel == <<"1", ":", "0", "5">>

NamedLines == TimestampLines \cup {LinePlain, LineHms, LineLead, LineNoLabel}

\* every line of up to MaxLineLen characters over a digit, the colon, the
\* blank and a letter
LineAlphabet == {"1", ":", " ", "a"}

CharLines == SeqsUpTo(LineAlphabet, MaxLineLen)

\* the descriptions handed to parse_chapters on its own: any one line of
\* CharLines, or up to MaxLines of the named lines
ParseDescriptions ==
  {<<l>> : l \in CharLines} \cup SeqsUpTo(NamedLines, MaxLines)

\* durations in seconds: between and after the timestamps above
Durations == {50, 100}

\* the extraction tool's chapter list of n chapters, 40 seconds each
YtChapters(n) ==
  [i \in 1..n |-> [start_time |-> 40 * (i - 1),
                   title |-> <<"p", "*", DigitChar(i)>>,
                   end_time |-> 40 * i]]

YtChapterLists == {YtChapters(n) : n \in 0..MaxYtChapters}

\* the total_bytes a download of the audio reports to the hook, 0 for none
DlTotals == 0..MaxBytes

Videos ==
  [title : Titles, description : Descriptions, duration : Durations,
   chapters : YtChapterLists, total_bytes : DlTotals]

\* the videos whose description is parsed on its own
ParseVideos ==
  {v \in [title : Titles, description : ParseDescriptions, duration : {100},
          chapters : {<<>>}, total_bytes : {0}] : TRUE}

\* the video of the runs with two workers
SmallVideos ==
  {v \in Videos : /\ v.duration = 100
                  /\ v.description = <<>>
                  /\ v.chapters = YtChapters(1)
                  /\ v.total_bytes = 1}

(***************************************************************************)
(* State.                                                                  *)
(***************************************************************************)
VARIABLES
  video,    \* what the collaborators report about the submitted video
  cookie,   \* COOKIE_FILE: "absent" or "present"
  tasks,    \* the global dict tasks: task id -> dict
  worker,   \* the thread of each task id: its position and its locals
  folder,   \* the file names in downloads/<sanitized title>
  resp      \* the response of the route that ran in the last step, if any

vars == <<video, cookie, tasks, worker, folder, resp>>

\* the pool uuid.uuid4() draws from
TaskIds == {"t1", "t2"}

NoResp == [route |-> "none"]

IdleWorker ==
  [pc |-> "idle", youtube_url |-> <<>>, has_meta |-> FALSE, title |-> <<>>,
   chapters |-> <<>>, duration_secs |-> 0, files |-> <<>>,
   dl_bytes |-> 0, failed_at |-> "none"]

\* dict.update(**kv)
Update(d, kv) ==
  [k \in DOMAIN d \cup DOMAIN kv |-> IF k \in DOMAIN kv THEN kv[k] ELSE d[k]]

InitCommon ==
  /\ cookie \in {"absent", "present"}
  /\ tasks = <<>>
  /\ worker = [t \in TaskIds |-> IdleWorker]
  /\ folder = {}
  /\ resp = NoResp

Init == video \in Videos /\ InitCommon

InitConc == video \in SmallVideos /\ InitCommon

InitParse == video \in ParseVideos /\ InitCommon

(***************************************************************************)
(* Task updates.                                                           *)
(***************************************************************************)
\* tasks[task_id].update(status='error', error=str(e))
ErrorUpdateNoCause(d, e) == Update(d, [status |-> "error"])

ErrorUpdate(d, e) == Update(d, [status |-> "error", error |-> e])

\* tasks[task_id].update(status='done', percent=100, result={...})
DoneUpdate(d, result) ==
  Update(d, [status |-> "done", percent |-> Pct(100), result |-> result])

\* the progress hook handed to the extraction tool
dl_hook(d, task) ==
  IF d.status = "downloading" /\ d.total_bytes # 0
  THEN Update(task,
              [status |-> "downloading",
               percent |-> (d.downloaded_bytes * 45 * PctScale)
                             \div d.total_bytes + Pct(5)])
  ELSE task

\* pct = 50 + ((i+1)/len(chapters))*45, for the chapter at 1-based index k
SplitPctOver(k, n) == Pct(55) + (k * 45 * PctScale) \div n

SplitPct(k, n) == Pct(50) + (k * 45 * PctScale) \div n

\* the loop that sets end_time on every chapter
EndTimes(chapters, duration_secs) ==
  [idx \in 1..Len(chapters) |->
     [start_time |-> chapters[idx].start_time,
      title |-> chapters[idx].title,
      end_time |-> IF idx < Len(chapters)
                   THEN chapters[idx + 1].start_time
                   ELSE duration_secs]]

\* the formats of a player response kept as audio_fmts
AudioFmts(all_streams) ==
  SelectSeq(all_streams,
            LAMBDA fmt : fmt.audio /\ (fmt.url \/ fmt.cipher_url))

\* streamingData of the player responses of the model
FormatLists ==
  {<<>>,
   <<[audio |-> FALSE, url |-> TRUE, cipher_url |-> FALSE]>>,
   <<[audio |-> TRUE, url |-> FALSE, cipher_url |-> FALSE]>>,
   <<[audio |-> FALSE, url |-> TRUE, cipher_url |-> FALSE],
     [audio |-> TRUE, url |-> FALSE, cipher_url |-> TRUE]>>,
   <<[audio |-> TRUE, url |-> TRUE, cipher_url |-> FALSE]>>}

(***************************************************************************)
(* The worker thread background_task(task_id, youtube_url).  Every action  *)
(* is one step of the thread of task t; an exception that reaches the      *)
(* outer except clause ends the step with the error update.                *)
(***************************************************************************)
W(t) == worker[t]

\* the thread of t moves on with locals w
Goto(t, w) ==
  /\ worker' = [worker EXCEPT ![t] = w]
  /\ resp' = NoResp

\* except Exception as e: tasks[task_id].update(status='error', error=str(e))
Fail(t, w, e) ==
  /\ tasks' = [tasks EXCEPT ![t] = ErrorUpdate(@, e)]
  /\ Goto(t, [w EXCEPT !.pc = "failed", !.failed_at = w.pc])

\* another thread is working in the download folder
FolderShared(t) ==
  \E u \in TaskIds \ {t} :
    W(u).pc \in {"player", "dl_cookie", "dl_anon", "stream", "convert",
                 "split", "cleanup", "finish"}

\* maybe_refresh_cookies: os.path.exists(COOKIE_FILE)
MaybeRefreshCookies(t) ==
  /\ W(t).pc = "cookies"
  /\ Goto(t, [W(t) EXCEPT !.pc = IF cookie = "absent" THEN "rc_exists"
                                  ELSE "cookies_mtime"])
  /\ UNCHANGED <<video, cookie, tasks, folder>>

\* maybe_refresh_cookies: time.time() - os.path.getmtime(COOKIE_FILE) > TTL.
\* The age of the file is an input: any file may have grown older than TTL.
CookieMtime(t) ==
  /\ W(t).pc = "cookies_mtime"
  /\ \E expired \in BOOLEAN :
       Goto(t, IF cookie = "absent"
               THEN [W(t) EXCEPT !.pc = "meta_api"]
               ELSE [W(t) EXCEPT !.pc = IF expired THEN "rc_exists"
                                        ELSE "meta_api"])
  /\ UNCHANGED <<video, cookie, tasks, folder>>

\* refresh_cookies: if os.path.exists(COOKIE_FILE)
RefreshExists(t) ==
  /\ W(t).pc = "rc_exists"
  /\ Goto(t, [W(t) EXCEPT !.pc = IF cookie = "absent" THEN "rc_browse"
                                  ELSE "rc_remove"])
  /\ UNCHANGED <<video, cookie, tasks, folder>>

\* refresh_cookies: os.remove(COOKIE_FILE)
RefreshRemove(t) ==
  /\ W(t).pc = "rc_remove"
  /\ IF cookie = "absent"
     THEN /\ Goto(t, [W(t) EXCEPT !.pc = "meta_api"])
          /\ UNCHANGED cookie
     ELSE /\ Goto(t, [W(t) EXCEPT !.pc = "rc_browse"])
          /\ cookie' = "absent"
  /\ UNCHANGED <<video, tasks, folder>>

\* refresh_cookies: the headless browser loads the page and returns cookies
RefreshBrowseFatal(t) ==
  /\ W(t).pc = "rc_browse"
  /\ \E ok \in BOOLEAN :
       IF ok
       THEN /\ Goto(t, [W(t) EXCEPT !.pc = "rc_save"])
            /\ UNCHANGED tasks
       ELSE Fail(t, W(t), "TimeoutError")
  /\ UNCHANGED <<video, cookie, folder>>

RefreshBrowse(t) ==
  /\ W(t).pc = "rc_browse"
  /\ \E ok \in BOOLEAN :
       Goto(t, IF ok THEN [W(t) EXCEPT !.pc = "rc_save"]
               ELSE [W(t) EXCEPT !.pc = "meta_api"])
  /\ UNCHANGED <<video, cookie, tasks, folder>>

\* refresh_cookies: jar.save(...)
RefreshSave(t) ==
  /\ W(t).pc = "rc_save"
  /\ cookie' = "present"
  /\ Goto(t, [W(t) EXCEPT !.pc = "meta_api"])
  /\ UNCHANGED <<video, tasks, folder>>

\* where the thread goes once title and chapters are bound
AfterMetaPc(chapters) ==
  IF chapters = <<>> THEN "chapters_ytdlp" ELSE "prepare"

\* metadata tier 1: get_video_metadata(vid) and parse_chapters
MetaDataApiNoFallback(t) ==
  /\ W(t).pc = "meta_api"
  /\ \E ok \in {b \in BOOLEAN : b => extract_video_id(W(t).youtube_url) = VideoId} :
       IF ok
       THEN /\ Goto(t, [W(t) EXCEPT
                   !.has_meta = TRUE,
                   !.title = video.title,
                   !.chapters = parse_chapters(video.description),
                   !.pc = AfterMetaPc(parse_chapters(video.description))])
            /\ UNCHANGED tasks
       ELSE Fail(t, W(t), "HttpError")
  /\ UNCHANGED <<video, cookie, folder>>

MetaDataApi(t) ==
  /\ W(t).pc = "meta_api"
  /\ \E ok \in {b \in BOOLEAN : b => extract_video_id(W(t).youtube_url) = VideoId} :
       Goto(t, IF ok
               THEN [W(t) EXCEPT
                   !.has_meta = TRUE,
                   !.title = video.title,
                   !.chapters = parse_chapters(video.description),
                   !.pc = AfterMetaPc(parse_chapters(video.description))]
               ELSE [W(t) EXCEPT !.pc = "meta_ytdlp"])
  /\ UNCHANGED <<video, cookie, tasks, folder>>

\* metadata tier 2: ydl.extract_info(youtube_url, download=False)
MetaYtdlp(t) ==
  /\ W(t).pc = "meta_ytdlp"
  /\ \E ok \in BOOLEAN :
       IF ok
       THEN /\ Goto(t, [W(t) EXCEPT
                   !.title = video.title,
                   !.chapters = video.chapters,
                   !.pc = AfterMetaPc(video.chapters)])
            /\ UNCHANGED tasks
       ELSE Fail(t, W(t), "ExtractorError")
  /\ UNCHANGED <<video, cookie, folder>>

\* chapters only: a second extract_info when no chapters were found
ChaptersYtdlpFatal(t) ==
  /\ W(t).pc = "chapters_ytdlp"
  /\ \E ok \in BOOLEAN :
       IF ok
       THEN /\ Goto(t, [W(t) EXCEPT !.chapters = video.chapters,
                                    !.pc = "prepare"])
            /\ UNCHANGED tasks
       ELSE Fail(t, W(t), "ExtractorError")
  /\ UNCHANGED <<video, cookie, folder>>

ChaptersYtdlp(t) ==
  /\ W(t).pc = "chapters_ytdlp"
  /\ \E ok \in BOOLEAN :
       Goto(t, IF ok
               THEN [W(t) EXCEPT !.chapters = video.chapters,
                                 !.pc = "prepare"]
               ELSE [W(t) EXCEPT !.chapters = <<>>,
                                 !.pc = "prepare"])
  /\ UNCHANGED <<video, cookie, tasks, folder>>

\* info.get('duration', 0): the extraction tool's own figure, which is the
\* end of its last chapter when it reports chapters
InfoDuration ==
  IF video.chapters = <<>> THEN video.duration
  ELSE video.chapters[Len(video.chapters)].end_time

\* duration_secs: from meta if the Data API answered, else from info
DurationSecs(w) == IF w.has_meta THEN video.duration ELSE InfoDuration

\* duration_secs, the end_time loop, get_download_folder and the removal
\* of the files the folder holds
Prepare(t) ==
  /\ W(t).pc = "prepare"
  /\ folder' = {}
  /\ Goto(t, [W(t) EXCEPT
         !.duration_secs = DurationSecs(W(t)),
         !.chapters = EndTimes(W(t).chapters, DurationSecs(W(t))),
         !.pc = "player"])
  /\ UNCHANGED <<video, cookie, tasks>>

\* where the thread goes once full_audio.mp3 is there: the split loop, or
\* past it when there is no chapter to loop over
AfterDownloadPc(chapters) == IF chapters = <<>> THEN "cleanup" ELSE "split"

\* 4.1/4.2: the player API request and the choice of audio_fmts
Player(t) ==
  /\ W(t).pc = "player"
  /\ \E ok \in BOOLEAN :
       IF ok
       THEN /\ \E all_streams \in FormatLists :
                 Goto(t, IF AudioFmts(all_streams) = <<>>
                         THEN [W(t) EXCEPT !.pc = "dl_cookie",
                                           !.dl_bytes = 0]
                         ELSE [W(t) EXCEPT !.pc = "stream"])
            /\ UNCHANGED tasks
       ELSE Fail(t, W(t),
                 "HTTPError")
  /\ UNCHANGED <<video, cookie, folder>>

\* the dicts the extraction tool may hand to the hook next; a dict with
\* status finished counts all the bytes of the file
HookDicts(w) ==
  {d \in [status : {"downloading", "finished"},
          downloaded_bytes : w.dl_bytes..(IF video.total_bytes = 0
                                          THEN MaxBytes
                                          ELSE video.total_bytes),
          total_bytes : {video.total_bytes}] :
     (d.status = "finished" /\ video.total_bytes # 0)
       => d.downloaded_bytes = video.total_bytes}

\* the extraction tool calls dl_hook during a download
DlProgress(t) ==
  /\ W(t).pc \in {"dl_cookie", "dl_anon"}
  /\ \E d \in HookDicts(W(t)) :
       /\ tasks' = [tasks EXCEPT ![t] = dl_hook(d, @)]
       /\ Goto(t, [W(t) EXCEPT !.dl_bytes = d.downloaded_bytes])
  /\ UNCHANGED <<video, cookie, folder>>

\* fetch with the cookie file: YoutubeDL(ydl_opts).download
DlCookie(t) ==
  /\ W(t).pc = "dl_cookie"
  /\ \E ok \in BOOLEAN :
       IF ok
       THEN /\ folder' = folder \cup {FullAudioMp3}
            /\ Goto(t, [W(t) EXCEPT !.dl_bytes = 0,
                                    !.pc = AfterDownloadPc(W(t).chapters)])
       ELSE /\ UNCHANGED folder
            /\ Goto(t, [W(t) EXCEPT !.dl_bytes = 0,
                                    !.pc = "dl_anon"])
  /\ UNCHANGED <<video, cookie, tasks>>

\* fetch without cookies: YoutubeDL(anon_opts).download
DlAnon(t) ==
  /\ W(t).pc = "dl_anon"
  /\ \E ok \in BOOLEAN :
       IF ok
       THEN /\ folder' = folder \cup {FullAudioMp3}
            /\ Goto(t, [W(t) EXCEPT !.dl_bytes = 0,
                                    !.pc = AfterDownloadPc(W(t).chapters)])
            /\ UNCHANGED tasks
       ELSE /\ UNCHANGED folder
            /\ Fail(t, [W(t) EXCEPT !.dl_bytes = 0],
                    "DownloadError")
  /\ UNCHANGED <<video, cookie>>

\* 4.3: the stream is written to full_audio.m4a, then percent=50
Stream(t) ==
  /\ W(t).pc = "stream"
  /\ \E ok \in BOOLEAN :
       IF ok
       THEN /\ folder' = folder \cup {FullAudioM4a}
            /\ tasks' = [tasks EXCEPT ![t] =
                 Update(@, [status |-> "downloaded", percent |-> Pct(50)])]
            /\ Goto(t, [W(t) EXCEPT !.pc = "convert"])
       ELSE /\ \E partial \in SUBSET {FullAudioM4a} :
                 folder' = folder \cup partial
            /\ Fail(t, W(t),
                    "ConnectionError")
  /\ UNCHANGED <<video, cookie>>

\* 4.4: ffmpeg turns full_audio.m4a into full_audio.mp3
Convert(t) ==
  /\ W(t).pc = "convert"
  /\ \E ok \in {b \in BOOLEAN : b => FullAudioM4a \in folder} :
       IF ok
       THEN /\ folder' = (folder \cup {FullAudioMp3}) \ {FullAudioM4a}
            /\ Goto(t, [W(t) EXCEPT !.pc = AfterDownloadPc(W(t).chapters)])
            /\ UNCHANGED tasks
       ELSE /\ UNCHANGED folder
            /\ Fail(t, W(t),
                    "CalledProcessError")
  /\ UNCHANGED <<video, cookie>>

\* 5: one round of the split loop, for the chapter after the files made
SplitStoresPartial(t) ==
  /\ W(t).pc = "split"
  /\ LET n == Len(W(t).chapters)
         i == Len(W(t).files) + 1
         part == sanitize_filename(W(t).chapters[i].title) \o Mp3Ext
     IN \E ok \in {b \in BOOLEAN :
                     b => FullAudioMp3 \in folder /\ part # FullAudioMp3} :
          IF ok
          THEN /\ folder' = folder \cup {part}
               /\ tasks' = [tasks EXCEPT ![t] =
                    Update(@, [status |-> "splitting",
                               percent |-> SplitPct(i, n)])]
               /\ Goto(t, [W(t) EXCEPT
                      !.files = Append(@, part),
                      !.pc = IF i = n THEN "cleanup" ELSE "split"])
          ELSE /\ UNCHANGED folder
               /\ tasks' = [tasks EXCEPT ![t] =
                    Update(ErrorUpdate(@, "CalledProcessError"),
                           [result |-> [files |-> W(t).files]])]
               /\ Goto(t, [W(t) EXCEPT !.pc = "failed",
                                       !.failed_at = "split"])
  /\ UNCHANGED <<video, cookie>>

Split(t) ==
  /\ W(t).pc = "split"
  /\ LET n == Len(W(t).chapters)
         i == Len(W(t).files) + 1
         part == sanitize_filename(W(t).chapters[i].title) \o Mp3Ext
     IN \E ok \in {b \in BOOLEAN :
                     b => FullAudioMp3 \in folder /\ part # FullAudioMp3} :
          IF ok
          THEN /\ folder' = folder \cup {part}
               /\ tasks' = [tasks EXCEPT ![t] =
                    Update(@, [status |-> "splitting",
                               percent |-> SplitPct(i, n)])]
               /\ Goto(t, [W(t) EXCEPT
                      !.files = Append(@, part),
                      !.pc = IF i = n THEN "cleanup" ELSE "split"])
          ELSE /\ UNCHANGED folder
               /\ Fail(t, W(t),
                       "CalledProcessError")
  /\ UNCHANGED <<video, cookie>>

\* 6: the master MP3 is removed if it exists
Cleanup(t) ==
  /\ W(t).pc = "cleanup"
  /\ folder' = folder \ {FullAudioMp3}
  /\ Goto(t, [W(t) EXCEPT !.pc = "finish"])
  /\ UNCHANGED <<video, cookie, tasks>>

\* the result dict; total_time and total_space are left out
ResultOf(w) ==
  [video_title |-> w.title,
   path |-> sanitize_filename(w.title),
   files |-> w.files]

\* 6: get_folder_size_mb walks the folder, then the done update
FinishThenRaise(t) ==
  /\ W(t).pc = "finish"
  /\ IF tasks[t].status # "done"
     THEN /\ tasks' = [tasks EXCEPT ![t] = DoneUpdate(@, ResultOf(W(t)))]
          /\ Goto(t, W(t))
     ELSE Fail(t, W(t), "Exception")
  /\ UNCHANGED <<video, cookie, folder>>

Finish(t) ==
  /\ W(t).pc = "finish"
  /\ \E ok \in {b \in BOOLEAN : ~b => FolderShared(t)} :
       IF ok
       THEN /\ tasks' = [tasks EXCEPT ![t] = DoneUpdate(@, ResultOf(W(t)))]
            /\ Goto(t, [W(t) EXCEPT !.pc = "finished"])
       ELSE Fail(t, W(t), "FileNotFoundError")
  /\ UNCHANGED <<video, cookie, folder>>

(***************************************************************************)
(* The routes.                                                             *)
(***************************************************************************)
\* POST /start with youtube_url = url; ids is the pool of fresh task ids
startQueuesInvalid(url, ids) ==
  \E tid \in ids \ DOMAIN tasks :
    /\ tasks' = (tid :> (IF UrlMatches(url)
                         THEN [status |-> "queued", percent |-> 0]
                         ELSE [status |-> "error", percent |-> 0,
                               error |-> "Invalid YouTube URL."])) @@ tasks
    /\ worker' = [worker EXCEPT ![tid] =
         [IdleWorker EXCEPT !.pc = IF UrlMatches(url) THEN "cookies"
                                  ELSE "failed",
                            !.youtube_url = url]]
    /\ resp' = IF UrlMatches(url)
               THEN [route |-> "start", code |-> 202,
                     body |-> [task_id |-> tid]]
               ELSE [route |-> "start", code |-> 400,
                     body |-> [error |-> "Invalid YouTube URL."]]
    /\ UNCHANGED <<video, cookie, folder>>

start(url, ids) ==
  IF ~UrlMatches(url)
  THEN /\ resp' = [route |-> "start", code |-> 400,
                   body |-> [error |-> "Invalid YouTube URL."]]
       /\ UNCHANGED <<video, cookie, tasks, worker, folder>>
  ELSE \E tid \in ids \ DOMAIN tasks :
         /\ tasks' = (tid :> [status |-> "queued", percent |-> 0]) @@ tasks
         /\ worker' = [worker EXCEPT ![tid] =
              [IdleWorker EXCEPT !.pc = "cookies", !.youtube_url = url]]
         /\ resp' = [route |-> "start", code |-> 202,
                     body |-> [task_id |-> tid]]
         /\ UNCHANGED <<video, cookie, folder>>

\* jsonify(tasks.get(task_id, {'status':'not found'}))
StatusResponse(task_id) ==
  [route |-> "status", task_id |-> task_id, code |-> 200,
   body |-> IF task_id \in DOMAIN tasks THEN tasks[task_id]
            ELSE [status |-> "not found"]]

\* GET /status/<task_id>
status(task_id) ==
  /\ resp' = StatusResponse(task_id)
  /\ UNCHANGED <<video, cookie, tasks, worker, folder>>

ResultResponseNoCheck(task_id) ==
  IF task_id \notin DOMAIN tasks
  THEN [route |-> "result", task_id |-> task_id, code |-> 404,
        body |-> [error |-> "Invalid task ID"]]
  ELSE [route |-> "result", task_id |-> task_id, code |-> 200,
        body |-> [result |-> IF "result" \in DOMAIN tasks[task_id]
                             THEN tasks[task_id].result
                             ELSE [files |-> <<>>]]]

\* the response of /result/<task_id>
ResultResponse(task_id) ==
  IF task_id \notin DOMAIN tasks
  THEN [route |-> "result", task_id |-> task_id, code |-> 404,
        body |-> [error |-> "Invalid task ID"]]
  ELSE IF tasks[task_id].status # "done"
  THEN [route |-> "result", task_id |-> task_id, code |-> 400,
        body |-> [error |-> "Task not complete"]]
  ELSE [route |-> "result", task_id |-> task_id, code |-> 200,
        body |-> [result |-> tasks[task_id].result]]

\* GET /result/<task_id>
result(task_id) ==
  /\ resp' = ResultResponse(task_id)
  /\ UNCHANGED <<video, cookie, tasks, worker, folder>>

(***************************************************************************)
(* Specifications.  Spec runs one worker over every video of the model;    *)
(* SpecConc runs two workers side by side over fewer videos.               *)
(***************************************************************************)
WorkerStep(t) ==
  \/ MaybeRefreshCookies(t) \/ CookieMtime(t) \/ RefreshExists(t)
  \/ RefreshRemove(t) \/ RefreshBrowse(t) \/ RefreshSave(t)
  \/ MetaDataApi(t) \/ MetaYtdlp(t) \/ ChaptersYtdlp(t) \/ Prepare(t)
  \/ Player(t) \/ DlProgress(t) \/ DlCookie(t) \/ DlAnon(t)
  \/ Stream(t) \/ Convert(t) \/ Split(t) \/ Cleanup(t) \/ Finish(t)

NextOf(ids, urls) ==
  \/ \E url \in urls : start(url, ids)
  \/ \E task_id \in ids : status(task_id)
  \/ \E task_id \in ids : result(task_id)
  \/ \E t \in ids : WorkerStep(t)

Next == NextOf({"t1"}, Urls)

NextConc == NextOf(TaskIds, {UrlShort, UrlInvalid})

Spec == Init /\ [][Next]_vars

SpecConc == InitConc /\ [][NextConc]_vars

\* chapters = parse_chapters(meta["description"]), taken on its own
ParseDescription(t) ==
  /\ W(t).pc = "idle"
  /\ Goto(t, [W(t) EXCEPT !.chapters = parse_chapters(video.description),
                          !.pc = "parsed"])
  /\ UNCHANGED <<video, cookie, tasks, folder>>

NextParse == ParseDescription("t1")

SpecParse == InitParse /\ [][NextParse]_vars

(***************************************************************************)
(* Progress.  A thread that is scheduled goes on with its next statement,  *)
(* but a statement that waits for a collaborator ends only when the        *)
(* collaborator answers or a timeout expires.  requests.post, requests.get *)
(* and subprocess.run are called without a timeout, so nothing makes the   *)
(* steps Player, Stream, Convert and Split happen; every other step is     *)
(* local or ends by a timeout (page.goto(..., timeout=30_000), and the     *)
(* socket timeouts the API client and the extraction tool apply).          *)
(***************************************************************************)
\* the steps of the thread of t that end without waiting for ever
TimedStep(t) ==
  \/ MaybeRefreshCookies(t) \/ CookieMtime(t) \/ RefreshExists(t)
  \/ RefreshRemove(t) \/ RefreshBrowse(t) \/ RefreshSave(t)
  \/ MetaDataApi(t) \/ MetaYtdlp(t) \/ ChaptersYtdlp(t) \/ Prepare(t)
  \/ DlProgress(t) \/ DlCookie(t) \/ DlAnon(t)
  \/ Cleanup(t) \/ Finish(t)

NextLive ==
  \/ start(UrlShort, TaskIds)
  \/ \E t \in TaskIds : WorkerStep(t)

SpecLive ==
  /\ InitConc
  /\ [][NextLive]_vars
  /\ \A t \in TaskIds : WF_vars(TimedStep(t))

(***************************************************************************)
(* Properties.                                                             *)
(***************************************************************************)
Terminal == {"done", "error"}

\* the threads that are past the metadata phase / in the fetch phase
MetaPcs == {"meta_api", "meta_ytdlp", "chapters_ytdlp", "prepare"}

FetchPcs == {"player", "stream", "convert", "dl_cookie", "dl_anon"}

\* the state of the task state machine a status string stands for:
\* 0 queued, 1 resolving_metadata, 2 fetching_audio, 3 segmenting, 4 done
StateRank(st) ==
  CASE st = "queued" -> 0
    [] st \in {"downloading", "downloaded"} -> 2
    [] st = "splitting" -> 3
    [] st = "done" -> 4

\* C1: the percent stored on a task never decreases from one step to the
\* next, whichever update writes it.
PercentNeverDecreases ==
  [][\A t \in DOMAIN tasks : tasks'[t].percent >= tasks[t].percent]_vars

\* C2: every change of a task's status goes to the next state of
\* queued -> resolving_metadata -> fetching_audio -> segmenting -> done
\* (or stays within the state), or from a non-terminal state to error.
StateMovesForwardByOne ==
  [][\A t \in DOMAIN tasks :
       LET a == tasks[t].status
           b == tasks'[t].status
       IN \/ a = b
          \/ a \notin Terminal /\ b = "error"
          \/ /\ a # "error" /\ b # "error"
             /\ StateRank(b) \in {StateRank(a), StateRank(a) + 1}]_vars

\* C3: a task has a result exactly when its status is done and an error
\* exactly when its status is error; so a non-terminal task has neither,
\* no task has both and a terminal task has exactly one.
ResultErrorMatchStatus ==
  \A t \in DOMAIN tasks :
    /\ ("result" \in DOMAIN tasks[t]) <=> (tasks[t].status = "done")
    /\ ("error" \in DOMAIN tasks[t]) <=> (tasks[t].status = "error")

\* C3 witness: one task is done with a result while another one is in error
\* with a cause.
DoneAndErrorTasks ==
  \E t, u \in DOMAIN tasks :
    /\ tasks[t].status = "done" /\ "result" \in DOMAIN tasks[t]
    /\ tasks[u].status = "error" /\ "error" \in DOMAIN tasks[u]

\* C4: once the status of a task is done or error, no step changes any
\* field of the task.
TerminalIsFinal ==
  [][\A t \in DOMAIN tasks :
       tasks[t].status \in Terminal => tasks'[t] = tasks[t]]_vars

\* C4 witness: a task failed in its last step while the other worker was
\* still at work in the folder; that worker has since run on to done and a
\* result query has been answered.
TerminalThenMoreSteps ==
  \E t, u \in DOMAIN tasks :
    /\ tasks[t].status = "done"
    /\ tasks[u].status = "error" /\ W(u).failed_at = "finish"
    /\ resp.route = "result"

\* C5: a task that is done with an empty chapter list has exactly one
\* output file, named from the sanitized title, as its only result entry,
\* and nothing else is left in the folder.
ZeroChaptersOneFile ==
  \A t \in DOMAIN tasks :
    (tasks[t].status = "done" /\ W(t).chapters = <<>>) =>
      /\ tasks[t].result.files = <<sanitize_filename(W(t).title) \o Mp3Ext>>
      /\ folder = {sanitize_filename(W(t).title) \o Mp3Ext}

\* file is title with every illegal character replaced by "_", plus ".mp3"
IsSanitizedMp3(file, title) ==
  /\ Len(file) = Len(title) + Len(Mp3Ext)
  /\ SubSeq(file, Len(title) + 1, Len(file)) = Mp3Ext
  /\ \A j \in 1..Len(title) :
       file[j] = IF title[j] \in IllegalChars THEN "_" ELSE title[j]

\* C6: a task that is done with N >= 1 chapters has a result file list of
\* exactly N entries, entry i being the sanitized title of chapter i plus
\* ".mp3", and full_audio.mp3 is not in the folder.
ChapterFilesInOrder ==
  \A t \in DOMAIN tasks :
    (tasks[t].status = "done" /\ Len(W(t).chapters) >= 1) =>
      /\ Len(tasks[t].result.files) = Len(W(t).chapters)
      /\ \A i \in 1..Len(W(t).chapters) :
           IsSanitizedMp3(tasks[t].result.files[i], W(t).chapters[i].title)
      /\ FullAudioMp3 \notin folder

\* C6 witness: a task is done with two chapters, one of them with an
\* illegal character in its title.
DoneWithTwoChapters ==
  \E t \in DOMAIN tasks :
    /\ tasks[t].status = "done"
    /\ Len(W(t).chapters) = 2
    /\ \E i \in 1..2 :
         \E j \in 1..Len(W(t).chapters[i].title) :
           W(t).chapters[i].title[j] \in IllegalChars

\* C7: when the Data API tier raises, the thread goes on to the extraction
\* tool with the same URL and records no error; a task fails in the
\* metadata phase only in the extraction tier after the Data API tier has
\* raised, and then it is in error without a result, a result query for
\* it answers with an error and the folder holds no file.
MetadataFallback ==
  [][\A t \in DOMAIN tasks :
       /\ (W(t).pc = "meta_api" /\ worker'[t].pc # "meta_api"
             /\ ~worker'[t].has_meta)
          => (/\ worker'[t].pc = "meta_ytdlp"
              /\ worker'[t].youtube_url = W(t).youtube_url
              /\ tasks'[t] = tasks[t])
       /\ (worker'[t].failed_at \in MetaPcs)
          => (/\ worker'[t].failed_at = "meta_ytdlp"
              /\ ~worker'[t].has_meta
              /\ tasks'[t].status = "error"
              /\ "result" \notin DOMAIN tasks'[t]
              /\ folder' = {}
              /\ (resp'.route = "result" /\ resp'.task_id = t)
                 => (resp'.code = 400 /\ "error" \in DOMAIN resp'.body))]_vars

\* C7 witness: both metadata tiers have raised and a result query for the
\* task has been answered.
MetadataExhausted ==
  \E t \in DOMAIN tasks :
    /\ W(t).failed_at = "meta_ytdlp"
    /\ resp.route = "result" /\ resp.task_id = t

\* C8: a task fails in the fetch phase only in the last tier, the
\* anonymous extraction-tool download, after the tiers before it failed.
FetchErrorOnlyAfterAllTiers ==
  \A t \in DOMAIN tasks :
    W(t).failed_at \in FetchPcs => W(t).failed_at = "dl_anon"

\* C9: the chapter list a thread takes into the split loop is ordered by
\* start_time, every mark has start_time < end_time, each end_time is the
\* next start_time and the last end_time is the duration.
ChapterMarksWellFormed ==
  \A t \in DOMAIN tasks :
    W(t).pc = "split" =>
      LET ch == W(t).chapters
          n == Len(ch)
      IN /\ \A i \in 1..n : ch[i].start_time < ch[i].end_time
         /\ \A i \in 1..(n - 1) :
              /\ ch[i].end_time = ch[i + 1].start_time
              /\ ch[i].start_time <= ch[i + 1].start_time
         /\ ch[n].end_time = W(t).duration_secs

\* C10: /result answers with result data only for a task that is done;
\* for a task in error /status answers with status error and a cause and
\* without a result, and /result answers without a result.
ResultOnlyWhenDone ==
  /\ (resp.route = "result" /\ "result" \in DOMAIN resp.body)
     => (/\ resp.task_id \in DOMAIN tasks
         /\ tasks[resp.task_id].status = "done"
         /\ resp.body.result = tasks[resp.task_id].result)
  /\ \A t \in DOMAIN tasks :
       (/\ tasks[t].status = "error"
        /\ resp.route \in {"status", "result"}
        /\ resp.task_id = t)
       => (/\ "result" \notin DOMAIN resp.body
           /\ (resp.route = "status")
              => (/\ resp.body.status = "error"
                  /\ "error" \in DOMAIN resp.body)
           /\ (resp.route = "result") => (resp.code = 400))

\* C10 witness: /status has answered for a task in error.
StatusOfFailedTask ==
  \E t \in DOMAIN tasks :
    /\ tasks[t].status = "error"
    /\ resp.route = "status" /\ resp.task_id = t

\* the positions of a thread inside refresh_cookies
RefreshPcs == {"rc_exists", "rc_remove", "rc_browse", "rc_save"}

\* the positions of a thread inside the try block around maybe_refresh_cookies
CookiePcs == {"cookies", "cookies_mtime"} \cup RefreshPcs

\* C11: at most one thread is inside refresh_cookies at a time, and a
\* thread that has seen the cookie file exist and is about to read its
\* mtime or to remove it still finds the file there.
CookieRefreshSingleFlight ==
  /\ Cardinality({t \in DOMAIN tasks : W(t).pc \in RefreshPcs}) <= 1
  /\ \A t \in DOMAIN tasks :
       W(t).pc \in {"cookies_mtime", "rc_remove"} => cookie = "present"

\* the order of the statements of the cookie phase; 6 stands for what
\* follows the phase
CookieRank(pc) ==
  CASE pc = "cookies" -> 0
    [] pc = "cookies_mtime" -> 1
    [] pc = "rc_exists" -> 2
    [] pc = "rc_remove" -> 3
    [] pc = "rc_browse" -> 4
    [] pc = "rc_save" -> 5
    [] OTHER -> 6

\* C12: a step of the cookie phase never changes the task (it stays
\* queued, without an error), never fails the thread, and only moves
\* forward through the phase, so the browser session is started at most
\* once per task; the phase is left for the metadata phase only.
CookieRefreshNonFatal ==
  [][\A t \in DOMAIN tasks :
       W(t).pc \in CookiePcs =>
         /\ tasks[t].status = "queued"
         /\ tasks'[t] = tasks[t]
         /\ worker'[t].failed_at = "none"
         /\ \/ worker'[t].pc = W(t).pc
            \/ /\ CookieRank(worker'[t].pc) > CookieRank(W(t).pc)
               /\ worker'[t].pc \in CookiePcs \cup {"meta_api"}]_vars

\* C12 witness: the only task there is has run to done although no cookie
\* file is there: its refresh was attempted and did not save one.
DoneWithoutCookies ==
  \E t \in DOMAIN tasks : tasks[t].status = "done" /\ cookie = "absent"

\* C13: a start request answered with 400 leaves the task map and the
\* threads as they were; a step that creates a task creates it queued,
\* for a URL that passes the validation, and answers 202; so every task
\* there is was submitted with a valid URL.
InvalidUrlRejected ==
  [][/\ (resp'.route = "start" /\ resp'.code = 400)
          => (tasks' = tasks /\ worker' = worker)
     /\ \A t \in DOMAIN tasks' :
          /\ UrlMatches(worker'[t].youtube_url)
          /\ t \notin DOMAIN tasks
             => (/\ tasks'[t] = [status |-> "queued", percent |-> 0]
                 /\ resp'.route = "start" /\ resp'.code = 202)]_vars

\* C13 witness: an invalid URL has been rejected while a task exists.
InvalidRejectedBesideTask ==
  /\ resp.route = "start" /\ resp.code = 400
  /\ DOMAIN tasks # {}

\* C14: every task that has been submitted reaches the status done or
\* error, whatever the other thread does.
TaskReachesTerminal ==
  \A t \in TaskIds :
    (t \in DOMAIN tasks)
      ~> (t \in DOMAIN tasks /\ tasks[t].status \in Terminal)

\* the positions at which a thread waits for an external collaborator
ExternalCallPcs ==
  {"rc_browse", "meta_api", "meta_ytdlp", "chapters_ytdlp", "player",
   "dl_cookie", "dl_anon", "stream", "convert", "split"}

\* C15: every external call ends, by an answer, an exception or a timeout:
\* a thread that waits at an external call leaves that position.
ExternalCallsEnd ==
  \A t \in TaskIds :
    \A p \in ExternalCallPcs :
      (W(t).pc = p) ~> (W(t).pc # p)

\* C16: when the Data API has answered and its description gives no
\* chapter, the thread asks the extraction tool for chapters; whether that
\* call answers or raises, the thread goes on to prepare the download with
\* the Data API's title, the task unchanged and not failed, and with the
\* tool's chapters or none; the duration is then the Data API's.
ChaptersOnlyFallback ==
  [][\A t \in DOMAIN tasks :
       /\ (W(t).pc = "meta_api" /\ worker'[t].has_meta
             /\ worker'[t].chapters = <<>>)
          => (worker'[t].pc = "chapters_ytdlp")
       /\ (W(t).pc = "chapters_ytdlp" /\ W(t).has_meta
             /\ worker'[t].pc # "chapters_ytdlp")
          => (/\ worker'[t].pc = "prepare"
              /\ worker'[t].has_meta
              /\ worker'[t].title = W(t).title
              /\ worker'[t].chapters \in {video.chapters, <<>>}
              /\ worker'[t].failed_at = "none"
              /\ tasks'[t] = tasks[t])
       /\ (W(t).pc = "prepare" /\ W(t).has_meta
             /\ worker'[t].pc # "prepare")
          => (/\ worker'[t].duration_secs = video.duration
              /\ worker'[t].title = W(t).title)]_vars

\* C16 witness: the Data API answered, the extraction tool has chapters
\* for the video, and the thread is past the metadata phase without any:
\* the chapters-only call raised and the thread went on.
ChaptersCallSwallowed ==
  \E t \in DOMAIN tasks :
    /\ W(t).has_meta /\ W(t).pc = "player"
    /\ W(t).chapters = <<>> /\ video.chapters # <<>>
    /\ W(t).duration_secs = video.duration
    /\ tasks[t].status = "queued"

\* C17: while the extraction tool is downloading and has reported bytes
\* received, the percent of the task is 5 + 45 * downloaded / total when
\* the total size is known and part of it is still to come, and it is 5
\* when the total size is unknown.
TransferPercentInRange ==
  \A t \in DOMAIN tasks :
    (W(t).pc \in {"dl_cookie", "dl_anon"} /\ W(t).dl_bytes > 0)
      => IF video.total_bytes = 0
         THEN tasks[t].percent = Pct(5)
         ELSE W(t).dl_bytes < video.total_bytes
                => /\ tasks[t].percent
                        = Pct(5) + (W(t).dl_bytes * 45 * PctScale)
                                     \div video.total_bytes
                   /\ tasks[t].percent >= Pct(5)
                   /\ tasks[t].percent <= Pct(50)

\* C18: after every step the percent of every task is between 0 and 100,
\* it is 100 exactly when the status is done, it is at most 95 while the
\* status is splitting, and a task in error has the percent it had before
\* the step.
PercentBounds ==
  [][\A t \in DOMAIN tasks' :
       /\ tasks'[t].percent >= 0 /\ tasks'[t].percent <= Pct(100)
       /\ (tasks'[t].percent = Pct(100)) <=> (tasks'[t].status = "done")
       /\ (tasks'[t].status = "splitting") => (tasks'[t].percent <= Pct(95))
       /\ (t \in DOMAIN tasks /\ tasks'[t].status = "error")
          => (tasks'[t].percent = tasks[t].percent)]_vars

\* C18 witness: a task is in error with a percent the split loop reported
\* for a chapter that was not the last.
ErrorKeepsSplitPercent ==
  \E t \in DOMAIN tasks :
    /\ tasks[t].status = "error"
    /\ tasks[t].percent > Pct(50) /\ tasks[t].percent < Pct(95)

\* C19: a thread whose transcoder call failed in the split loop has ended:
\* its task is in error with the exception as the error message and
\* without a result, and fewer files than chapters were made.
SplitFailureIsError ==
  \A t \in DOMAIN tasks :
    W(t).failed_at = "split" =>
      /\ W(t).pc = "failed"
      /\ tasks[t].status = "error"
      /\ tasks[t].error = "CalledProcessError"
      /\ "result" \notin DOMAIN tasks[t]
      /\ Len(W(t).files) < Len(W(t).chapters)

\* C19 witness: the transcoder failed on chapter 2 of 2, the file of
\* chapter 1 is in the folder.
SplitFailedOnSecond ==
  \E t \in DOMAIN tasks :
    /\ W(t).failed_at = "split"
    /\ Len(W(t).chapters) = 2 /\ Len(W(t).files) = 1
    /\ W(t).files[1] \in folder

(***************************************************************************)
(* The timestamp grammar, written down on its own: a timestamp is one or   *)
(* two digits, a colon and two digits, with or without a further colon     *)
(* and two digits; a chapter line is a timestamp at the start of the line, *)
(* then whitespace, then a label, the label being what follows the         *)
(* whitespace (its last character, if only whitespace follows).            *)
(***************************************************************************)
\* the widths of the digit groups of a timestamp
TsShapes == {<<1, 2>>, <<2, 2>>, <<1, 2, 2>>, <<2, 2, 2>>}

\* where group g of a timestamp of shape sh starts, and the shape's length
GroupStart(sh, g) ==
  IF g = 1 THEN 1 ELSE IF g = 2 THEN sh[1] + 2 ELSE sh[1] + sh[2] + 3

ShapeLen(sh) == GroupStart(sh, Len(sh)) + sh[Len(sh)] - 1

HasShape(line, sh) ==
  /\ Len(line) >= ShapeLen(sh)
  /\ \A g \in 1..Len(sh) :
       /\ \A k \in 0..(sh[g] - 1) : line[GroupStart(sh, g) + k] \in Digits
       /\ g < Len(sh) => line[GroupStart(sh, g) + sh[g]] = ":"

\* the number group g of the timestamp spells
GroupVal(line, sh, g) ==
  IF sh[g] = 1 THEN DigitVal(line[GroupStart(sh, g)])
  ELSE 10 * DigitVal(line[GroupStart(sh, g)])
         + DigitVal(line[GroupStart(sh, g) + 1])

\* H * 3600 + M * 60 + S, with H = 0 for a timestamp of two groups
ShapeSecs(line, sh) ==
  IF Len(sh) = 3
  THEN GroupVal(line, sh, 1) * 3600 + GroupVal(line, sh, 2) * 60
         + GroupVal(line, sh, 3)
  ELSE GroupVal(line, sh, 1) * 60 + GroupVal(line, sh, 2)

\* the chapters a line can be read as: timestamp line[1..ShapeLen],
\* whitespace up to position j, label from j + 1 on
Readings(line) ==
  {[start_time |-> ShapeSecs(line, r[1]),
    title |-> SubSeq(line, r[2] + 1, Len(line))] :
     r \in {q \in TsShapes \X (1..Len(line)) :
              /\ HasShape(line, q[1])
              /\ q[2] > ShapeLen(q[1]) /\ q[2] < Len(line)
              /\ \A k \in (ShapeLen(q[1]) + 1)..q[2] : line[k] \in Whitespace
              /\ (q[2] + 1 = Len(line) \/ line[q[2] + 1] \notin Whitespace)}}

RECURSIVE ExpectedChapters(_)
ExpectedChapters(lines) ==
  IF lines = <<>> THEN <<>>
  ELSE (IF Readings(Head(lines)) = {} THEN <<>>
        ELSE <<CHOOSE c \in Readings(Head(lines)) : TRUE>>)
         \o ExpectedChapters(Tail(lines))

\* C20: parse_chapters returns, in line order, the one reading of every
\* line that has a reading by the timestamp grammar and nothing for the
\* other lines; no line has two readings; the description "1:05 Intro"
\* gives the one chapter titled Intro that starts at second 65.
ParseChaptersByGrammar ==
  W("t1").pc = "parsed" =>
    /\ \A i \in 1..Len(video.description) :
         Cardinality(Readings(video.description[i])) <= 1
    /\ W("t1").chapters = ExpectedChapters(video.description)
    /\ video.description = <<LineIntro>>
       => W("t1").chapters
            = <<[start_time |-> 65, title |-> <<"I", "n", "t", "r", "o">>]>>

\* C20 witness: a description of a line with hours and the line
\* "1:05 Intro" has been parsed into two chapters.
ParsedHmsAndIntro ==
  /\ W("t1").pc = "parsed"
  /\ video.description = <<LineHms, LineIntro>>
  /\ Len(W("t1").chapters) = 2

=============================================================================
